---- MODULE Spec2Model ----
(***************************************************************************)
(* Model of covid_dashboard/app.py: the module-level load pipeline         *)
(* (read_csv, column selection, date normalisation, dropna, groupby/sum,   *)
(* feature engineering), the layout step, and the update_dashboard         *)
(* callback (filter, sort, KPI calculation).  Spec runs one callback       *)
(* invocation at a time, each as one step; ConcurrentSpec runs the         *)
(* callback statement by statement in two server threads at once.          *)
(*                                                                         *)
(* A frame is a sequence of rows (records).  A Last_Update string is       *)
(* modelled by what to_datetime reads from it: whether it parses, its      *)
(* local day, hour and UTC offset (hours); "parseable" is the outcome of    *)
(* to_datetime for that row.  A parsed Date is a day number; NaT marks a   *)
(* failed parse.  The float product x * 0.8 is modelled as the *)
(* exact rational 4x/5: for the integer magnitudes of the data int(x*0.8)  *)
(* and (4x) div 5 coincide.  Rows are assumed to carry a country string    *)
(* and integer counts, as the RawRecord of the data model does.            *)
(***************************************************************************)
EXTENDS Integers, Sequences, FiniteSets

VARIABLES csv, data, pc, call, result, stdout, workers

vars == <<csv, data, pc, call, result, stdout, workers>>

\* ------------------------------------------------------------------ bounds
MaxLen == 2

Countries == {"Morocco", "Spain"}
QueryCountries == Countries \cup {"Atlantis"}
Days == {1, 2}
QueryDays == {1, 2, 3}
TimeForms == {<<8, 0>>, <<23, -2>>}
ConfirmedValues == {1, 7}
DeathsValues == {0, 3}

Garbage == [parseable |-> FALSE, day |-> 0, hour |-> 0, offset |-> 0]

Timestamps ==
  {Garbage} \cup
  {[parseable |-> TRUE, day |-> d, hour |-> f[1], offset |-> f[2]] :
     d \in Days, f \in TimeForms}

RawRows ==
  [Country_Region : Countries, Last_Update : Timestamps,
   Confirmed : ConfirmedValues, Deaths : DeathsValues]

RawInputs == UNION {[1..n -> RawRows] : n \in 0..MaxLen}

None == [isnone |-> TRUE, date |-> 0, time |-> ""]

\* inputs of the two-thread specification: one time form, one count pair,
\* and three date-picker values (None, a plain date, a date with a time)
ConcurrentRows ==
  {r \in RawRows :
     /\ r.Last_Update.parseable /\ r.Last_Update.hour = 8
     /\ r.Confirmed = 7 /\ r.Deaths = 3}

ConcurrentInputs ==
  {f \in RawInputs : \A i \in 1..Len(f) : f[i] \in ConcurrentRows}

ConcurrentPickers ==
  {None, [isnone |-> FALSE, date |-> 1, time |-> ""],
   [isnone |-> FALSE, date |-> 2, time |-> "T00:00:00"]}

Workers == {"t1", "t2"}

PickerValues ==
  {None} \cup
  {[isnone |-> FALSE, date |-> d, time |-> t] :
     d \in QueryDays, t \in {"", "T00:00:00"}}

\* ------------------------------------------------------ load pipeline
NaT == -1

\* data[['Country_Region', 'Last_Update', 'Confirmed', 'Deaths']] and rename
SelectRename(frame) ==
  [i \in 1..Len(frame) |->
     [Country |-> frame[i].Country_Region, Date |-> frame[i].Last_Update,
      Confirmed |-> frame[i].Confirmed, Deaths |-> frame[i].Deaths]]

\* pd.to_datetime(s, utc=True, errors='coerce'): the UTC instant in hours
to_datetime_utc(ts) ==
  IF ts.parseable THEN ts.day * 24 + ts.hour - ts.offset ELSE NaT

\* .dt.tz_localize(None).dt.date: the calendar day of the UTC instant
dt_date(instant) == IF instant = NaT THEN NaT ELSE instant \div 24

NormalizeDate(frame) ==
  [i \in 1..Len(frame) |->
     [frame[i] EXCEPT !.Date = dt_date(to_datetime_utc(frame[i].Date))]]

IsNotNa(row) == row.Date # NaT

\* data.dropna(subset=['Date'])
dropna(frame) == SelectSeq(frame, IsNotNa)

Preprocessed(frame) == dropna(NormalizeDate(SelectRename(frame)))

CountryRank(c) == IF c = "Morocco" THEN 1 ELSE IF c = "Spain" THEN 2 ELSE 0

KeyOf(row) == <<row.Country, row.Date>>

KeyLeq(k1, k2) ==
  \/ CountryRank(k1[1]) < CountryRank(k2[1])
  \/ CountryRank(k1[1]) = CountryRank(k2[1]) /\ k1[2] <= k2[2]

RECURSIVE SortedKeys(_)
SortedKeys(S) ==
  IF S = {} THEN <<>>
  ELSE LET m == CHOOSE x \in S : \A y \in S : KeyLeq(x, y)
       IN <<m>> \o SortedKeys(S \ {m})

GroupKeys(frame) == {KeyOf(frame[i]) : i \in 1..Len(frame)}

\* faulty variants of the aggregation: 'max' and 'last' in place of 'sum'
RECURSIVE agg_max(_, _, _)
agg_max(frame, key, col) ==
  IF frame = <<>> THEN 0
  ELSE LET rest == agg_max(Tail(frame), key, col)
           v == Head(frame)[col]
       IN IF KeyOf(Head(frame)) = key /\ v > rest THEN v ELSE rest

RECURSIVE agg_last(_, _, _)
agg_last(frame, key, col) ==
  IF frame = <<>> THEN 0
  ELSE IF KeyOf(frame[Len(frame)]) = key THEN frame[Len(frame)][col]
  ELSE agg_last(SubSeq(frame, 1, Len(frame) - 1), key, col)

\* .agg({col: 'sum'}) for one group: the sum of col over the group's rows
RECURSIVE agg_sum(_, _, _)
agg_sum(frame, key, col) ==
  IF frame = <<>> THEN 0
  ELSE (IF KeyOf(Head(frame)) = key THEN Head(frame)[col] ELSE 0)
       + agg_sum(Tail(frame), key, col)

\* data.groupby(['Country', 'Date'], as_index=False).agg(...): one row per
\* key, keys in sorted order
groupby_agg(frame) ==
  LET keys == SortedKeys(GroupKeys(frame))
  IN [i \in 1..Len(keys) |->
        [Country |-> keys[i][1], Date |-> keys[i][2],
         Confirmed |-> agg_sum(frame, keys[i], "Confirmed"),
         Deaths |-> agg_sum(frame, keys[i], "Deaths")]]

\* x * 0.8 as an exact rational
times_0_8(x) == [num |-> 4 * x, den |-> 5]

\* faulty variant: no lower clamp
clip_none(v, a_min) == v

\* np.clip(v, a_min=a_min, a_max=None)
clip(v, a_min) ==
  IF v.num < a_min * v.den THEN [num |-> a_min * v.den, den |-> v.den] ELSE v

\* .astype(int): truncation toward zero
astype_int(v) ==
  IF v.num >= 0 THEN v.num \div v.den ELSE -((-v.num) \div v.den)

Recovered(confirmed, deaths) ==
  astype_int(clip(times_0_8(confirmed - deaths), 0))

\* faulty variant: deaths not subtracted
Active_no_deaths(confirmed, deaths, recovered) == confirmed - recovered

Active(confirmed, deaths, recovered) == confirmed - deaths - recovered

FeatureEngineering(frame) ==
  [i \in 1..Len(frame) |->
     LET r == frame[i]
         rec == Recovered(r.Confirmed, r.Deaths)
     IN [Country |-> r.Country, Date |-> r.Date,
         Confirmed |-> r.Confirmed, Deaths |-> r.Deaths,
         Recovered |-> rec,
         Active |-> Active(r.Confirmed, r.Deaths, rec)]]

LoadPipeline(frame) == FeatureEngineering(groupby_agg(Preprocessed(frame)))

\* ------------------------------------------------------ query engine
\* sorted(data['Country'].unique())
listCountries(frame) == {frame[i].Country : i \in 1..Len(frame)}

\* datetime.strptime(s.split('T')[0], '%Y-%m-%d').date()
strptime_date(s) == s.date

\* faulty variants of the filter: end bound excluded, date bounds joined by
\* "or", country condition missing
mask_open_end(row, country, start_date, end_date) ==
  /\ row.Country = country
  /\ row.Date >= start_date
  /\ row.Date < end_date

mask_or(row, country, start_date, end_date) ==
  /\ row.Country = country
  /\ (row.Date >= start_date \/ row.Date <= end_date)

mask_no_country(row, country, start_date, end_date) ==
  /\ row.Date >= start_date
  /\ row.Date <= end_date

\* (data['Country'] == c) & (data['Date'] >= start) & (data['Date'] <= end)
mask(row, country, start_date, end_date) ==
  /\ row.Country = country
  /\ row.Date >= start_date
  /\ row.Date <= end_date

RECURSIVE InsertByDate(_, _)
InsertByDate(row, sorted) ==
  IF sorted = <<>> THEN <<row>>
  ELSE IF row.Date <= Head(sorted).Date THEN <<row>> \o sorted
  ELSE <<Head(sorted)>> \o InsertByDate(row, Tail(sorted))

RECURSIVE sort_values_Date(_)
sort_values_Date(frame) ==
  IF frame = <<>> THEN <<>>
  ELSE InsertByDate(Head(frame), sort_values_Date(Tail(frame)))

Filtered(frame, country, start_date, end_date) ==
  LET keep(row) == mask(row, country, start_date, end_date)
  IN sort_values_Date(SelectSeq(frame, keep))

RECURSIVE column_max(_, _)
column_max(frame, col) ==
  IF Len(frame) = 1 THEN frame[1][col]
  ELSE LET rest == column_max(Tail(frame), col)
       IN IF Head(frame)[col] > rest THEN Head(frame)[col] ELSE rest

\* faulty variant: the maximum of Active instead of the last row's
active_max(filtered) == column_max(filtered, "Active")

\* int(filtered.iloc[-1]['Active'])
active_last(filtered) == filtered[Len(filtered)].Active

Returned(filtered, cases, deaths, recovered, active) ==
  [raised |-> "none", series |-> filtered, total_cases |-> cases,
   total_deaths |-> deaths, total_recovered |-> recovered,
   active_cases |-> active]

Raised(kind) ==
  [raised |-> kind, series |-> <<>>, total_cases |-> 0, total_deaths |-> 0,
   total_recovered |-> 0, active_cases |-> 0]

NoResult == Raised("not called")

NoCall == [country |-> "", start_date_str |-> None, end_date_str |-> None]

\* KPI Calculation and the return value built from it
KpiCalculation(filtered) ==
  IF filtered = <<>>
  THEN Returned(filtered, 0, 0, 0, 0)
  ELSE Returned(filtered,
                column_max(filtered, "Confirmed"),
                column_max(filtered, "Deaths"),
                column_max(filtered, "Recovered"),
                active_last(filtered))

\* the value update_dashboard returns (the KPI cards and the figure's frame),
\* or the exception it raises
update_dashboard_return(frame, selected_country, start_date_str, end_date_str) ==
  IF start_date_str.isnone \/ end_date_str.isnone
  THEN Raised("AttributeError")
  ELSE LET start_date == strptime_date(start_date_str)
           end_date == strptime_date(end_date_str)
           filtered == Filtered(frame, selected_country, start_date, end_date)
       IN KpiCalculation(filtered)

\* ------------------------------------------------------------ actions
NotFound ==
  <<"Error: 'covid-data.csv' not found. Please ensure the file is in the same directory.">>

Idle == [pc |-> "idle", call |-> NoCall, filtered |-> <<>>, result |-> NoResult]

AllIdle == [w \in Workers |-> Idle]

\* read_csv: the rows of the file, or the message and exit() when it is missing
ReadCsv(inputs) ==
  /\ call = NoCall
  /\ result = NoResult
  /\ workers = AllIdle
  /\ \/ /\ csv \in inputs
        /\ data = csv
        /\ pc = "read"
        /\ stdout = <<>>
     \/ /\ csv = <<>>
        /\ data = <<>>
        /\ pc = "exit"
        /\ stdout = NotFound

Init == ReadCsv(RawInputs)

Preprocess ==
  /\ pc = "read"
  /\ data' = Preprocessed(data)
  /\ pc' = "preprocessed"
  /\ UNCHANGED <<csv, call, result, stdout, workers>>

GroupBy ==
  /\ pc = "preprocessed"
  /\ data' = groupby_agg(data)
  /\ pc' = "grouped"
  /\ UNCHANGED <<csv, call, result, stdout, workers>>

Derive ==
  /\ pc = "grouped"
  /\ data' = FeatureEngineering(data)
  /\ pc' = "derived"
  /\ UNCHANGED <<csv, call, result, stdout, workers>>

\* MIN_DATE / MAX_DATE and the layout: datetime.combine fails on the NaN that
\* min() of an empty Date column gives, so an empty dataset never serves
Layout ==
  /\ pc = "derived"
  /\ pc' = IF data = <<>> THEN "error" ELSE "serving"
  /\ csv' = <<>>
  /\ UNCHANGED <<data, call, result, stdout, workers>>

\* one invocation of the callback, from its inputs to its return value
update_dashboard(selected_country, start_date_str, end_date_str) ==
  /\ pc = "serving"
  /\ call' = [country |-> selected_country, start_date_str |-> start_date_str,
              end_date_str |-> end_date_str]
  /\ result' = update_dashboard_return(data, selected_country, start_date_str,
                                       end_date_str)
  /\ pc' = "responding"
  /\ UNCHANGED <<csv, data, stdout, workers>>

\* the return value goes to the caller; the server keeps nothing of the call
Respond ==
  /\ pc = "responding"
  /\ pc' = "serving"
  /\ call' = NoCall
  /\ result' = NoResult
  /\ UNCHANGED <<csv, data, stdout, workers>>

Callback ==
  \E c \in QueryCountries, s \in PickerValues, e \in PickerValues :
    update_dashboard(c, s, e)

Next == Preprocess \/ GroupBy \/ Derive \/ Layout \/ Callback \/ Respond

Spec == Init /\ [][Next]_vars

\* --------------------------------------- the callback in two threads
InFlight(w, at, filtered, res) ==
  [workers EXCEPT ![w] = [@ EXCEPT !.pc = at, !.filtered = filtered,
                                   !.result = res]]

\* a request arrives: the thread holds the callback's three inputs
worker_invoke(w, selected_country, start_date_str, end_date_str) ==
  /\ pc = "serving"
  /\ workers[w].pc = "idle"
  /\ workers' = [workers EXCEPT ![w] =
       [pc |-> "filter",
        call |-> [country |-> selected_country,
                  start_date_str |-> start_date_str,
                  end_date_str |-> end_date_str],
        filtered |-> <<>>, result |-> NoResult]]
  /\ UNCHANGED <<csv, data, pc, call, result, stdout>>

\* faulty variant: the filter result replaces the module-level frame
worker_filter_rebinding(w) ==
  /\ pc = "serving"
  /\ workers[w].pc = "filter"
  /\ LET c == workers[w].call
     IN IF c.start_date_str.isnone \/ c.end_date_str.isnone
        THEN /\ workers' = InFlight(w, "return", <<>>, Raised("AttributeError"))
             /\ data' = data
        ELSE /\ workers' = InFlight(w, "kpi",
                    Filtered(data, c.country, strptime_date(c.start_date_str),
                             strptime_date(c.end_date_str)),
                    NoResult)
             /\ data' = workers'[w].filtered
  /\ UNCHANGED <<csv, pc, call, result, stdout>>

\* lines 102-108: the two dates are parsed (None has no split: the exception
\* ends the invocation) and the module-level frame is read and filtered
worker_filter(w) ==
  /\ pc = "serving"
  /\ workers[w].pc = "filter"
  /\ LET c == workers[w].call
     IN IF c.start_date_str.isnone \/ c.end_date_str.isnone
        THEN workers' = InFlight(w, "return", <<>>, Raised("AttributeError"))
        ELSE workers' = InFlight(w, "kpi",
               Filtered(data, c.country, strptime_date(c.start_date_str),
                        strptime_date(c.end_date_str)),
               NoResult)
  /\ UNCHANGED <<csv, data, pc, call, result, stdout>>

\* lines 110-175: the KPIs, cards and figure from the thread's own filtered
worker_kpi(w) ==
  /\ pc = "serving"
  /\ workers[w].pc = "kpi"
  /\ workers' = InFlight(w, "return", workers[w].filtered,
                          KpiCalculation(workers[w].filtered))
  /\ UNCHANGED <<csv, data, pc, call, result, stdout>>

\* the response is sent; the thread keeps nothing of the call
worker_return(w) ==
  /\ pc = "serving"
  /\ workers[w].pc = "return"
  /\ workers' = [workers EXCEPT ![w] = Idle]
  /\ UNCHANGED <<csv, data, pc, call, result, stdout>>

WorkerInvoke ==
  \E w \in Workers, c \in QueryCountries :
    \E s \in ConcurrentPickers, e \in ConcurrentPickers :
      worker_invoke(w, c, s, e)

WorkerFilter == \E w \in Workers : worker_filter(w)

WorkerKpi == \E w \in Workers : worker_kpi(w)

WorkerReturn == \E w \in Workers : worker_return(w)

ConcurrentInit == ReadCsv(ConcurrentInputs)

ConcurrentNext ==
  \/ Preprocess \/ GroupBy \/ Derive \/ Layout
  \/ WorkerInvoke \/ WorkerFilter \/ WorkerKpi \/ WorkerReturn

ConcurrentSpec == ConcurrentInit /\ [][ConcurrentNext]_vars

\* ------------------------------------------------------------- claims
RowSet(frame) == {frame[i] : i \in 1..Len(frame)}

Loaded == pc \in {"derived", "serving", "responding"}

\* a callback invocation with two calendar dates has returned or raised
Queried ==
  /\ pc = "responding"
  /\ ~call.start_date_str.isnone
  /\ ~call.end_date_str.isnone

QStart == call.start_date_str.date
QEnd == call.end_date_str.date

Matching ==
  {r \in RowSet(data) :
     r.Country = call.country /\ QStart <= r.Date /\ r.Date <= QEnd}

EmptyZero ==
  /\ result.raised = "none"
  /\ result.series = <<>>
  /\ result.total_cases = 0
  /\ result.total_deaths = 0
  /\ result.total_recovered = 0
  /\ result.active_cases = 0

\* C1: the series of query(X, s, e) holds exactly the Dataset records of
\* country X dated s..e, both bounds included, in strictly ascending date order.
C1_SeriesInclusiveAscending ==
  Queried =>
    /\ RowSet(result.series) = Matching
    /\ \A i \in 1..(Len(result.series) - 1) :
         result.series[i].Date < result.series[i + 1].Date

\* a series whose first record is dated exactly s and whose last exactly e
C1_Witness ==
  /\ Queried
  /\ Len(result.series) = 2
  /\ result.series[1].Date = QStart
  /\ result.series[2].Date = QEnd

\* C2: for a non-empty series the three totals are the column maxima of
\* confirmed, deaths and recovered over the series, and active_now is the
\* active value of the record with the greatest date, not the maximum.
C2_KpisMaxAndLatestActive ==
  (Queried /\ result.series # <<>>) =>
    LET rows == RowSet(result.series)
        IsMax(v, col) ==
          /\ \E r \in rows : r[col] = v
          /\ \A r \in rows : r[col] <= v
    IN /\ result.raised = "none"
       /\ IsMax(result.total_cases, "Confirmed")
       /\ IsMax(result.total_deaths, "Deaths")
       /\ IsMax(result.total_recovered, "Recovered")
       /\ \E r \in rows :
            /\ \A q \in rows : q.Date <= r.Date
            /\ result.active_cases = r.Active

\* a series whose latest record does not carry the greatest active value
C2_Witness ==
  /\ Queried
  /\ Len(result.series) = 2
  /\ result.series[2].Active < result.series[1].Active
  /\ result.active_cases = result.series[2].Active

\* C3: a query for a country of the Dataset whose range matches no record,
\* in particular every query with start > end, returns without error an empty
\* series and four zero KPIs.
C3_EmptyRangeZeroKpis ==
  (Queried /\ call.country \in listCountries(data)
     /\ (Matching = {} \/ QStart > QEnd)) => EmptyZero

\* a reversed range around a record of the queried country
C3_Witness ==
  /\ Queried
  /\ QStart > QEnd
  /\ \E r \in RowSet(data) :
       r.Country = call.country /\ QEnd <= r.Date /\ r.Date <= QStart
  /\ EmptyZero

\* C4 as stated: a query for a country outside listCountries() raises
\* InvalidQuery and is never answered with an empty series and zero KPIs.
C4_UnknownCountryRaises ==
  (Queried /\ call.country \notin listCountries(data)) =>
    result.raised = "InvalidQuery"

\* C4 amended: a query for a country outside listCountries() returns without
\* error an empty series and four zero KPIs.
C4_UnknownCountryEmptyZero ==
  (Queried /\ call.country \notin listCountries(data)) => EmptyZero

\* an unknown country asked over a range that holds records of other countries
C4_Witness ==
  /\ Queried
  /\ call.country = "Atlantis"
  /\ \E r \in RowSet(data) : QStart <= r.Date /\ r.Date <= QEnd
  /\ EmptyZero

Parseable == {i \in 1..Len(csv) : csv[i].Last_Update.parseable}

UtcDay(i) ==
  LET t == csv[i].Last_Update IN (t.day * 24 + t.hour - t.offset) \div 24

RawKey(i) == <<csv[i].Country_Region, UtcDay(i)>>

RECURSIVE RawSum(_, _)
RawSum(S, col) ==
  IF S = {} THEN 0
  ELSE LET i == CHOOSE i \in S : TRUE
       IN csv[i][col] + RawSum(S \ {i}, col)

\* C5: after the load pipeline the Dataset holds exactly one record per
\* (country, calendar date) pair of the raw records with a parseable
\* timestamp, and none for any other pair; its confirmed and deaths are the
\* sums over the parseable raw records of that country falling on that date.
C5_OneRecordPerKeyWithSums ==
  pc = "derived" =>
    LET keys == {RawKey(i) : i \in Parseable}
    IN /\ {KeyOf(data[j]) : j \in 1..Len(data)} = keys
       /\ Len(data) = Cardinality(keys)
       /\ \A j \in 1..Len(data) :
            LET grp == {i \in Parseable : RawKey(i) = KeyOf(data[j])}
            IN /\ data[j].Confirmed = RawSum(grp, "Confirmed")
               /\ data[j].Deaths = RawSum(grp, "Deaths")

\* two raw records of one country with different timestamps on the same
\* calendar date, merged into one record
C5_Witness ==
  /\ pc = "derived"
  /\ Len(csv) = 2
  /\ Parseable = {1, 2}
  /\ csv[1].Last_Update # csv[2].Last_Update
  /\ csv[1].Confirmed # csv[2].Confirmed
  /\ Len(data) = 1

\* C6: every record of the Dataset satisfies
\* recovered + active + deaths = confirmed, also where confirmed < deaths.
C6_Conservation ==
  Loaded =>
    \A r \in RowSet(data) : r.Recovered + r.Active + r.Deaths = r.Confirmed

\* a Dataset record with confirmed < deaths
C6_Witness ==
  /\ Loaded
  /\ \E r \in RowSet(data) : r.Confirmed < r.Deaths /\ r.Active < 0

\* C7: every record has recovered = floor(0.8 * max(0, confirmed - deaths)),
\* that is (4 * (confirmed - deaths)) div 5 when confirmed >= deaths and 0
\* otherwise, clamping before the scaling or after it; so recovered >= 0.
C7_RecoveredClampedFloor ==
  Loaded =>
    \A r \in RowSet(data) :
      LET x == r.Confirmed - r.Deaths
          clamped == IF x < 0 THEN 0 ELSE x
      IN /\ r.Recovered = (IF x >= 0 THEN (4 * x) \div 5 ELSE 0)
         /\ r.Recovered = (4 * clamped) \div 5
         /\ r.Recovered >= 0

\* a Dataset with a record where confirmed - deaths <= -2 (the scaled value
\* is below -1) and a record where 0.8 * (confirmed - deaths) is no integer
C7_Witness ==
  /\ Loaded
  /\ \E r \in RowSet(data) : r.Confirmed - r.Deaths <= -2 /\ r.Recovered = 0
  /\ \E r \in RowSet(data) :
       r.Confirmed > r.Deaths /\ (4 * (r.Confirmed - r.Deaths)) % 5 # 0

Malformed == {i \in 1..Len(csv) : ~csv[i].Last_Update.parseable}

IsWellFormed(row) == row.Last_Update.parseable

WellFormedOnly == SelectSeq(csv, IsWellFormed)

\* what the program keeps or has written once the pipeline has run: every
\* variable but the input file and the program counter
Observable == <<data, stdout, call, result, workers>>

ObservableAfterLoad(input) ==
  <<LoadPipeline(input), <<>>, NoCall, NoResult, AllIdle>>

\* C8: after the load pipeline the number of raw records excluded for an
\* unparseable timestamp is exposed: it can be read off what the program
\* keeps or has written.  A load that leaves the program exactly where the
\* load of the input without those records (no exclusion) leaves it has
\* then excluded none.
C8_ExclusionCountObservable ==
  (pc = "derived" /\ Observable = ObservableAfterLoad(WellFormedOnly)) =>
    Cardinality(Malformed) = 0

Bijections(n) ==
  {f \in [1..n -> 1..n] : \A i, j \in 1..n : f[i] = f[j] => i = j}

Permutations(frame) ==
  {[i \in 1..Len(frame) |-> frame[f[i]]] : f \in Bijections(Len(frame))}

\* C9: the Aggregator's output set of (country, date, confirmed, deaths)
\* records is the same for every ordering of its normalized input records,
\* the order the pipeline ran it on included.
C9_GroupingOrderIndependent ==
  pc = "grouped" =>
    \A p \in Permutations(Preprocessed(csv)) :
      RowSet(groupby_agg(p)) = RowSet(data)

\* two normalized records with the same key and different counts, aggregated
C9_Witness ==
  /\ pc = "grouped"
  /\ Len(Preprocessed(csv)) = 2
  /\ Len(data) = 1
  /\ Preprocessed(csv)[1].Confirmed # Preprocessed(csv)[2].Confirmed

InFlightWorkers == {w \in Workers : workers[w].pc # "idle"}

\* C10: once the Dataset is built no query changes it, whatever the sequence
\* or interleaving of query invocations (empty-result and out-of-domain ones
\* included): every step taken while serving leaves the Dataset as it is,
\* and each invocation that reaches its return holds the result its own
\* arguments give on that Dataset, whatever the other thread has done.
C10_QueriesLeaveDatasetUnchanged ==
  [][(pc = "serving") =>
       /\ data' = data
       /\ \A w \in Workers :
            workers'[w].pc = "return" =>
              workers'[w].result =
                update_dashboard_return(data, workers'[w].call.country,
                                        workers'[w].call.start_date_str,
                                        workers'[w].call.end_date_str)]_vars

\* two invocations in flight at once with different arguments: one has
\* filtered a proper, non-empty part of the Dataset and not yet returned, the
\* other, started meanwhile, already holds its result
C10_Witness ==
  /\ pc = "serving"
  /\ workers["t1"].pc = "kpi"
  /\ workers["t1"].filtered # <<>>
  /\ Len(workers["t1"].filtered) < Len(data)
  /\ workers["t2"].pc = "return"
  /\ workers["t2"].call # workers["t1"].call
  /\ workers["t2"].result.raised = "none"
  /\ workers["t2"].result.series # workers["t1"].filtered

====
